---- MODULE Spec2Model ----
(***************************************************************************)
(* Model of the analysis engine of ExcelDashAnalyze: the server helpers    *)
(* calculateColumnStatistics and calculateSummaryStats (server routes) and *)
(* the client library chart-utils.ts (detectColumnType,                    *)
(* calculateColumnStatistics).                                             *)
(*                                                                         *)
(* JavaScript strings are sequences of one-character strings, so that      *)
(* parseFloat, the /[$,]/g replacement and toLowerCase are computed and    *)
(* not looked up.  JavaScript numbers are exact rationals extended with    *)
(* Infinity, -Infinity and NaN (IEEE-754 rounding is not modelled); the    *)
(* result of Math.sqrt of a non-square is kept as an exact surd.           *)
(***************************************************************************)
EXTENDS Integers, Sequences, FiniteSets, TLC

VARIABLES
    col,      \* values: any[]            the column handed to the column functions
    op,       \* which function has been applied to col ("none" before the call)
    hint,     \* columnType argument of the client calculateColumnStatistics
    stats,    \* the object returned by calculateColumnStatistics
    dtype,    \* the string returned by detectColumnType
    lenient,  \* whether the engine's fallback Date parser accepts bare digit strings
    headers,  \* headers: string[]        argument of calculateSummaryStats
    data,     \* data: any[]              the row objects
    summary,  \* the object returned by calculateSummaryStats
    limit,    \* limit argument of the chart projections
    gridStats,\* per header, whether the statistics prop of ChartsGrid holds a numeric mean
    points,   \* the array returned by a chart projection
    ctype,    \* the string returned by getOptimalChartType
    excelFiles,    \* MemStorage.excelFiles: the ids of the stored file records
    excelData,     \* MemStorage.excelData: the stored sheet entries
    uploads,       \* the /api/upload requests: position, locals, temporary file, response
    lastRequest,   \* the last delete or chart-data request with its response
    tableData,     \* DataTable: the data prop
    searchTerm,    \* DataTable state
    selectedColumn,
    sortColumn,
    sortDirection,
    currentPage,
    isUploading,   \* useFileUpload state
    uploadProgress,
    calls,         \* the uploadFile calls: position of each
    timers         \* the calls whose progress interval is running

chartVars == <<limit, gridStats, points, ctype>>
serverVars == <<excelFiles, excelData, uploads, lastRequest>>
tableVars == <<tableData, searchTerm, selectedColumn, sortColumn, sortDirection, currentPage>>
hookVars == <<isUploading, uploadProgress, calls, timers>>
otherVars == <<serverVars, tableVars, hookVars>>
analysisVars == <<col, op, hint, stats, dtype, lenient, headers, data, summary, chartVars>>
vars == <<analysisVars, otherVars>>

---------------------------------------------------------------------------
(* Bounds of the model *)

\* longest column handed to the statistics functions
MaxLen == 3
\* longest column handed to detectColumnType (5 values make "exactly 80%" possible)
MaxTypeLen == 5
\* most rows in a dataset handed to calculateSummaryStats
MaxRows == 3

---------------------------------------------------------------------------
(* JavaScript numbers *)

Abs(x) == IF x < 0 THEN -x ELSE x

RECURSIVE GCD(_, _)
GCD(a, b) == IF b = 0 THEN a ELSE GCD(b, a % b)

\* the finite number n/d (d > 0), in lowest terms
Fin(n, d) ==
    LET g == GCD(Abs(n), d)
    IN  [k |-> "fin", n |-> n \div g, d |-> d \div g]

Int2Num(n) == [k |-> "fin", n |-> n, d |-> 1]
NaN == [k |-> "nan", n |-> 0, d |-> 1]
PosInf == [k |-> "inf", n |-> 0, d |-> 1]
NegInf == [k |-> "ninf", n |-> 0, d |-> 1]
\* the value undefined (an absent property)
Undefined == [k |-> "undef", n |-> 0, d |-> 1]
\* the boolean values, which keep their type until an operator coerces them
BoolVal(b) == [k |-> "bool", n |-> IF b THEN 1 ELSE 0, d |-> 1]

\* ToNumber: booleans become 1 / 0, undefined becomes NaN
ToNumber(v) ==
    CASE v.k = "bool" -> Int2Num(v.n)
      [] v.k = "undef" -> NaN
      [] OTHER -> v

Sign(x) ==
    CASE x.k = "inf" -> 1
      [] x.k = "ninf" -> -1
      [] OTHER -> IF x.n > 0 THEN 1 ELSE IF x.n < 0 THEN -1 ELSE 0

Neg(x) ==
    CASE x.k = "nan" -> NaN
      [] x.k = "inf" -> NegInf
      [] x.k = "ninf" -> PosInf
      [] OTHER -> Fin(-x.n, x.d)

\* a + b on numbers
AddNum(a, b) ==
    CASE a.k = "nan" \/ b.k = "nan" -> NaN
      [] a.k = "fin" /\ b.k = "fin" -> Fin(a.n * b.d + b.n * a.d, a.d * b.d)
      [] a.k = "fin" -> b
      [] b.k = "fin" -> a
      [] a.k = b.k -> a
      [] OTHER -> NaN

\* a * b on numbers
MulNum(a, b) ==
    CASE a.k = "nan" \/ b.k = "nan" -> NaN
      [] a.k = "fin" /\ b.k = "fin" -> Fin(a.n * b.n, a.d * b.d)
      [] Sign(a) * Sign(b) = 0 -> NaN
      [] Sign(a) * Sign(b) > 0 -> PosInf
      [] OTHER -> NegInf

\* a / b on numbers
DivNum(a, b) ==
    CASE a.k = "nan" \/ b.k = "nan" -> NaN
      [] a.k = "fin" /\ b.k = "fin" ->
            IF b.n = 0
            THEN (IF a.n = 0 THEN NaN ELSE IF a.n > 0 THEN PosInf ELSE NegInf)
            ELSE IF b.n > 0 THEN Fin(a.n * b.d, a.d * b.n)
                 ELSE Fin(-(a.n * b.d), a.d * (-b.n))
      [] a.k = "fin" -> Int2Num(0)
      [] b.k = "fin" -> IF Sign(a) * (IF b.n < 0 THEN -1 ELSE 1) > 0 THEN PosInf ELSE NegInf
      [] OTHER -> NaN

\* the operators +, -, *, / applied to numbers and booleans
Add(a, b) == AddNum(ToNumber(a), ToNumber(b))
Sub(a, b) == AddNum(ToNumber(a), Neg(ToNumber(b)))
Mul(a, b) == MulNum(ToNumber(a), ToNumber(b))
Div(a, b) == DivNum(ToNumber(a), ToNumber(b))

\* the global isNaN(v)
IsNaN(v) == ToNumber(v).k = "nan"

\* a < b and a <= b as JavaScript compares them: false when either side is NaN
LtNum(a, b) ==
    CASE a.k = "nan" \/ b.k = "nan" -> FALSE
      [] a.k = "fin" /\ b.k = "fin" -> a.n * b.d < b.n * a.d
      [] a.k = b.k -> FALSE
      [] OTHER -> a.k = "ninf" \/ b.k = "inf"
Lt(a, b) == LtNum(ToNumber(a), ToNumber(b))
\* a == b on numbers: NaN equals nothing
EqNum(a, b) == a.k # "nan" /\ b.k # "nan" /\ a = b
Le(a, b) == Lt(a, b) \/ EqNum(ToNumber(a), ToNumber(b))

\* Math.pow(x, 2)
Pow2(x) == Mul(x, x)

RECURSIVE ISqrt(_, _, _)
\* the largest r in lo..hi with r * r <= x (lo * lo <= x), by bisection
ISqrt(x, lo, hi) ==
    IF lo >= hi THEN lo
    ELSE LET mid == (lo + hi + 1) \div 2
         IN  IF mid * mid <= x THEN ISqrt(x, mid, hi) ELSE ISqrt(x, lo, mid - 1)

\* the integer square root of x >= 0
Root(x) == ISqrt(x, 0, IF x < 46340 THEN x ELSE 46340)

\* Math.sqrt(x): exact for a square of a rational, otherwise the surd sqrt(n/d)
Sqrt(x) ==
    CASE x.k = "nan" \/ x.k = "ninf" -> NaN
      [] x.k = "inf" -> PosInf
      [] x.n < 0 -> NaN
      [] OTHER ->
            LET rn == Root(x.n)
                rd == Root(x.d)
            IN  IF rn * rn = x.n /\ rd * rd = x.d
                THEN Fin(rn, rd)
                ELSE [k |-> "surd", n |-> x.n, d |-> x.d]

---------------------------------------------------------------------------
(* JavaScript strings: sequences of one-character strings *)

Digits == {"0", "1", "2", "3", "4", "5", "6", "7", "8", "9"}
IsDigit(c) == c \in Digits

DigitVal(c) ==
    CASE c = "0" -> 0 [] c = "1" -> 1 [] c = "2" -> 2 [] c = "3" -> 3
      [] c = "4" -> 4 [] c = "5" -> 5 [] c = "6" -> 6 [] c = "7" -> 7
      [] c = "8" -> 8 [] c = "9" -> 9

DigitChar(n) ==
    CASE n = 0 -> "0" [] n = 1 -> "1" [] n = 2 -> "2" [] n = 3 -> "3"
      [] n = 4 -> "4" [] n = 5 -> "5" [] n = 6 -> "6" [] n = 7 -> "7"
      [] n = 8 -> "8" [] n = 9 -> "9"

WhiteSpace == {" "}

\* String.prototype.toLowerCase, one character
LowerChar(c) ==
    CASE c = "A" -> "a" [] c = "E" -> "e" [] c = "F" -> "f" [] c = "L" -> "l"
      [] c = "N" -> "n" [] c = "O" -> "o" [] c = "R" -> "r" [] c = "S" -> "s"
      [] c = "T" -> "t" [] c = "U" -> "u" [] c = "Y" -> "y"
      [] OTHER -> c
ToLowerCase(s) == [i \in 1..Len(s) |-> LowerChar(s[i])]

\* s.replace(/[$,]/g, '')
StripCurrency(s) == SelectSeq(s, LAMBDA c : c \notin {"$", ","})

\* s.slice(i - 1): the suffix of s from position i (1-based)
Suffix(s, i) == SubSeq(s, i, Len(s))
StartsWith(s, p) == Len(s) >= Len(p) /\ SubSeq(s, 1, Len(p)) = p

\* the first position j >= i of s that holds no digit (Len(s) + 1 when none)
DigitsEnd(s, i) ==
    CHOOSE j \in i..(Len(s) + 1) :
        /\ \A m \in i..(j - 1) : IsDigit(s[m])
        /\ j = Len(s) + 1 \/ ~IsDigit(s[j])

RECURSIVE DigitsValue(_, _, _)
\* the decimal value of the digits s[i..j-1]
DigitsValue(s, i, j) ==
    IF j <= i THEN 0 ELSE 10 * DigitsValue(s, i, j - 1) + DigitVal(s[j - 1])

RECURSIVE Pow10(_)
Pow10(e) == IF e = 0 THEN 1 ELSE 10 * Pow10(e - 1)

InfinityWord == <<"I", "n", "f", "i", "n", "i", "t", "y">>

\* the unsigned part of parseFloat: "Infinity", or the longest prefix
\* digits [. digits] / . digits ; NaN when there is none
ParseUnsigned(s) ==
    IF StartsWith(s, InfinityWord) THEN PosInf
    ELSE LET e1 == DigitsEnd(s, 1)
             hasDot == e1 <= Len(s) /\ s[e1] = "."
             e2 == IF hasDot THEN DigitsEnd(s, e1 + 1) ELSE e1
             nfrac == IF hasDot THEN e2 - (e1 + 1) ELSE 0
         IN  IF e1 = 1 /\ nfrac = 0 THEN NaN
             ELSE Fin(DigitsValue(s, 1, e1) * Pow10(nfrac)
                        + (IF hasDot THEN DigitsValue(s, e1 + 1, e2) ELSE 0),
                      Pow10(nfrac))

\* the index of the first character of s that is not white space
FirstNonSpace(s) ==
    CHOOSE j \in 1..(Len(s) + 1) :
        /\ \A m \in 1..(j - 1) : s[m] \in WhiteSpace
        /\ j = Len(s) + 1 \/ s[j] \notin WhiteSpace

\* parseFloat(s) for a string s: leading white space, an optional sign, then
\* the longest prefix that is a decimal literal; trailing text is ignored
ParseFloatStr(s) ==
    LET t == Suffix(s, FirstNonSpace(s))
    IN  IF t = <<>> THEN NaN
        ELSE IF t[1] = "-" THEN Neg(ParseUnsigned(Suffix(t, 2)))
        ELSE IF t[1] = "+" THEN ParseUnsigned(Suffix(t, 2))
        ELSE ParseUnsigned(t)

RECURSIVE NatToStr(_)
NatToStr(n) == IF n < 10 THEN <<DigitChar(n)>> ELSE NatToStr(n \div 10) \o <<DigitChar(n % 10)>>

\* String(n) for an integer n
IntToStr(n) == IF n < 0 THEN <<"-">> \o NatToStr(-n) ELSE NatToStr(n)

---------------------------------------------------------------------------
(* Cell values (RawValue): null, undefined, string, number, boolean, Date *)

Null == [t |-> "null", s |-> <<>>, n |-> 0]
Undef == [t |-> "undef", s |-> <<>>, n |-> 0]
Str(s) == [t |-> "str", s |-> s, n |-> 0]
Num(n) == [t |-> "num", s |-> <<>>, n |-> n]
Bool(b) == [t |-> "bool", s |-> <<>>, n |-> IF b THEN 1 ELSE 0]
\* a Date object; n is its time value
DateObj(n) == [t |-> "date", s |-> <<>>, n |-> n]

NotNullOrUndefined(v) == ~(v.t = "null" \/ v.t = "undef")
\* v !== null && v !== undefined && v !== ''
NonNull(v) == ~(v.t = "null" \/ v.t = "undef" \/ (v.t = "str" /\ v.s = <<>>))

\* String(v)
ToStr(v) ==
    CASE v.t = "str" -> v.s
      [] v.t = "num" -> IntToStr(v.n)
      [] v.t = "bool" -> IF v.n = 1 THEN <<"t", "r", "u", "e">> ELSE <<"f", "a", "l", "s", "e">>
      [] v.t = "null" -> <<"n", "u", "l", "l">>
      [] OTHER -> <<"u", "n", "d", "e", "f", "i", "n", "e", "d">>

\* a number or boolean cell as the value the arithmetic operators receive
CellValue(v) ==
    CASE v.t = "num" -> Int2Num(v.n)
      [] v.t = "bool" -> BoolVal(v.n = 1)

\* all sequences over S of length at most n
SeqUpTo(S, n) == UNION {[1..m -> S] : m \in 0..n}

---------------------------------------------------------------------------
(* Helpers shared by the two calculateColumnStatistics functions *)

\* values.filter(v => v !== null && v !== undefined && v !== '')
NonNullValues(values) == SelectSeq(values, NonNull)

\* new Set(nonNullValues).size: SameValueZero keeps "100" and 100 apart
UniqueCount(nonNullValues) ==
    Cardinality({nonNullValues[i] : i \in 1..Len(nonNullValues)})

\* xs.filter(v => !isNaN(v))
DropNaN(xs) == SelectSeq(xs, LAMBDA v : ~IsNaN(v))

\* the comparator (a, b) => a - b asks for b before a when its result is > 0
ComesAfter(a, b) == LET r == Sub(a, b) IN r.k # "nan" /\ Sign(r) > 0

\* insert x into the sorted sequence s behind every element that does not
\* have to come after it (the sort is stable)
InsertSorted(s, x) ==
    LET p == CHOOSE j \in 1..(Len(s) + 1) :
                /\ \A m \in 1..(j - 1) : ~ComesAfter(s[m], x)
                /\ j = Len(s) + 1 \/ ComesAfter(s[j], x)
    IN  SubSeq(s, 1, p - 1) \o <<x>> \o SubSeq(s, p, Len(s))

RECURSIVE SortAscending(_)
\* [...numericValues].sort((a, b) => a - b)
SortAscending(xs) ==
    IF xs = <<>> THEN <<>>
    ELSE InsertSorted(SortAscending(SubSeq(xs, 1, Len(xs) - 1)), xs[Len(xs)])

RECURSIVE Sum(_)
\* numericValues.reduce((acc, val) => acc + val, 0)
Sum(xs) ==
    IF xs = <<>> THEN Int2Num(0)
    ELSE Add(Sum(SubSeq(xs, 1, Len(xs) - 1)), xs[Len(xs)])

\* sum / numericValues.length
Mean(xs) == Div(Sum(xs), Int2Num(Len(xs)))

\* sorted.length % 2 === 0 ? (sorted[mid - 1] + sorted[mid]) / 2 : sorted[mid],
\* mid = Math.floor(sorted.length / 2), 0-based in the code and 1-based here
MedianUpperMiddle(sorted) == sorted[(Len(sorted) \div 2) + 1]
Median(sorted) ==
    LET mid == Len(sorted) \div 2
    IN  IF Len(sorted) % 2 = 0
        THEN Div(Add(sorted[mid], sorted[mid + 1]), Int2Num(2))
        ELSE sorted[mid + 1]

RECURSIVE SumSquaredDev(_, _)
\* numericValues.reduce((acc, val) => acc + Math.pow(val - mean, 2), 0)
SumSquaredDev(xs, mean) ==
    IF xs = <<>> THEN Int2Num(0)
    ELSE Add(SumSquaredDev(SubSeq(xs, 1, Len(xs) - 1), mean), Pow2(Sub(xs[Len(xs)], mean)))

SampleVariance(xs, mean) == Div(SumSquaredDev(xs, mean), Int2Num(Len(xs) - 1))
\* the population variance: the reduce above divided by numericValues.length
Variance(xs, mean) == Div(SumSquaredDev(xs, mean), Int2Num(Len(xs)))

\* Math.sqrt(variance)
StandardDeviation(variance) == Sqrt(variance)

\* an array index as a property key: "0", or digits without a leading zero
IsArrayIndex(s) ==
    /\ s # <<>>
    /\ \A i \in 1..Len(s) : IsDigit(s[i])
    /\ s = <<"0">> \/ s[1] # "0"

RECURSIVE InsertionOrder(_)
\* the distinct strings of ks in the order of their first occurrence
InsertionOrder(ks) ==
    IF ks = <<>> THEN <<>>
    ELSE LET front == InsertionOrder(SubSeq(ks, 1, Len(ks) - 1))
             last == ks[Len(ks)]
         IN  IF \E i \in 1..Len(front) : front[i] = last THEN front ELSE Append(front, last)

RECURSIVE SortIndexKeys(_)
\* array-index keys in ascending numeric order
SortIndexKeys(S) ==
    IF S = {} THEN <<>>
    ELSE LET least == CHOOSE k \in S :
                        \A o \in S : DigitsValue(k, 1, Len(k) + 1) <= DigitsValue(o, 1, Len(o) + 1)
         IN  <<least>> \o SortIndexKeys(S \ {least})

\* Object.keys(counts): array-index keys ascending, then the other keys in
\* the order in which they were first assigned
ObjectKeys(ks) ==
    LET order == InsertionOrder(ks)
    IN  SortIndexKeys({k \in {order[j] : j \in 1..Len(order)} : IsArrayIndex(k)})
          \o SelectSeq(order, LAMBDA k : ~IsArrayIndex(k))

\* counts[key] after the reduce: the number of values whose key is `key`
CountOf(ks, key) == Cardinality({i \in 1..Len(ks) : ks[i] = key})

\* Math.max(...Object.values(counts)); -Infinity for no values
MaxCount(ks) ==
    IF ks = <<>> THEN NegInf
    ELSE Int2Num(CHOOSE c \in 1..Len(ks) :
            /\ \E i \in 1..Len(ks) : CountOf(ks, ks[i]) = c
            /\ \A i \in 1..Len(ks) : CountOf(ks, ks[i]) <= c)

\* Object.keys(counts).find(key => counts[key] === maxCount)
NoMode == [has |-> FALSE, s |-> <<>>]
Mode(ks) ==
    LET keys == ObjectKeys(ks)
        hits == SelectSeq(keys, LAMBDA k : Int2Num(CountOf(ks, k)) = MaxCount(ks))
    IN  IF hits = <<>> THEN NoMode ELSE [has |-> TRUE, s |-> hits[1]]

\* the fields of a statistics object; an absent field is Undefined / NoMode
BaseStats(values, nonNullValues) ==
    [count |-> Len(values),
     nullCount |-> Len(values) - Len(nonNullValues),
     uniqueCount |-> UniqueCount(nonNullValues),
     mean |-> Undefined, min |-> Undefined, max |-> Undefined, range |-> Undefined,
     median |-> Undefined, variance |-> Undefined, standardDeviation |-> Undefined,
     mode |-> NoMode, averageLength |-> Undefined]

\* the numeric fields computed from the parsed values (at least one)
NumericStats(numericValues) ==
    LET sorted == SortAscending(numericValues)
        mean == Mean(numericValues)
        variance == Variance(numericValues, mean)
    IN  [mean |-> mean,
         min |-> sorted[1],
         max |-> sorted[Len(sorted)],
         range |-> Sub(sorted[Len(sorted)], sorted[1]),
         median |-> Median(sorted),
         variance |-> variance,
         standardDeviation |-> StandardDeviation(variance)]

\* base with the fields of extra set
WithFields(base, extra) ==
    [f \in DOMAIN base |-> IF f \in DOMAIN extra THEN extra[f] ELSE base[f]]

---------------------------------------------------------------------------
(* Server: calculateColumnStatistics(values, columnName) *)

\* .map(v => typeof v === 'string' ? parseFloat(v) : v)
ServerParse(v) == IF v.t = "str" THEN ParseFloatStr(v.s) ELSE CellValue(v)

ServerNumericValues(nonNullValues) ==
    DropNaN([i \in 1..Len(nonNullValues) |-> ServerParse(nonNullValues[i])])

\* the branch condition: numericValues.length > 0
MajorityNumeric(numericValues, nonNullValues) ==
    2 * Len(numericValues) > Len(nonNullValues)
ServerIsNumeric(numericValues, nonNullValues) == Len(numericValues) > 0

ServerColumnStatistics(values) ==
    LET nonNullValues == NonNullValues(values)
        numericValues == ServerNumericValues(nonNullValues)
        base == BaseStats(values, nonNullValues)
    IN  IF ServerIsNumeric(numericValues, nonNullValues)
        THEN WithFields(base, NumericStats(numericValues))
        ELSE IF Len(nonNullValues) > 0
        THEN WithFields(base,
                [mode |-> Mode([i \in 1..Len(nonNullValues) |-> ToStr(nonNullValues[i])])])
        ELSE base

---------------------------------------------------------------------------
(* Client: calculateColumnStatistics(values, columnType) of chart-utils.ts *)

\* .map(v => typeof v === 'string' ? parseFloat(v.replace(/[$,]/g, '')) : v)
ClientParse(v) == IF v.t = "str" THEN ParseFloatStr(StripCurrency(v.s)) ELSE CellValue(v)

ClientNumericValues(nonNullValues) ==
    DropNaN([i \in 1..Len(nonNullValues) |-> ClientParse(nonNullValues[i])])

RECURSIVE SumLengths(_)
\* nonNullValues.reduce((acc, val) => acc + String(val).length, 0)
SumLengths(xs) ==
    IF xs = <<>> THEN 0 ELSE SumLengths(SubSeq(xs, 1, Len(xs) - 1)) + Len(ToStr(xs[Len(xs)]))

\* a numeric column without parsed values handled by the text branch
ClientStatisticsTextFallback(values, columnType) ==
    LET nonNullValues == NonNullValues(values)
        numericValues == ClientNumericValues(nonNullValues)
        base == BaseStats(values, nonNullValues)
    IN  IF columnType = "number" /\ Len(numericValues) > 0
        THEN WithFields(base, NumericStats(numericValues))
        ELSE IF columnType = "text" \/ (columnType = "number" /\ Len(nonNullValues) > 0)
        THEN WithFields(base,
                [mode |-> Mode([i \in 1..Len(nonNullValues) |-> ToStr(nonNullValues[i])]),
                 averageLength |-> Div(Int2Num(SumLengths(nonNullValues)),
                                       Int2Num(Len(nonNullValues)))])
        ELSE base

\* calculateColumnStatistics(values, columnType)
ClientColumnStatistics(values, columnType) ==
    LET nonNullValues == NonNullValues(values)
        numericValues == ClientNumericValues(nonNullValues)
        base == BaseStats(values, nonNullValues)
    IN  IF columnType = "number" /\ Len(numericValues) > 0
        THEN WithFields(base, NumericStats(numericValues))
        ELSE IF columnType = "text"
        THEN WithFields(base,
                [mode |-> Mode([i \in 1..Len(nonNullValues) |-> ToStr(nonNullValues[i])]),
                 averageLength |-> Div(Int2Num(SumLengths(nonNullValues)),
                                       Int2Num(Len(nonNullValues)))])
        ELSE base

---------------------------------------------------------------------------
(* Server: calculateSummaryStats(headers, data) *)

\* Math.round(x): the integer nearest to x, halves upwards; NaN stays NaN
Round(x) ==
    IF x.k = "fin" THEN Int2Num((2 * x.n + x.d) \div (2 * x.d)) ELSE x

\* row[header]: undefined when the row has no such property
Property(row, header) == IF header \in DOMAIN row THEN row[header] ELSE Undef

\* data.map(row => row[header])
ColumnValues(header, rows) == [i \in 1..Len(rows) |-> Property(rows[i], header)]

\* nonNullValues.map(v => typeof v === 'string' ? parseFloat(v) : v).filter(v => !isNaN(v))
SummaryNumericValues(nonNullValues) ==
    DropNaN([i \in 1..Len(nonNullValues) |->
                IF nonNullValues[i].t = "str" THEN ParseFloatStr(nonNullValues[i].s)
                ELSE CellValue(nonNullValues[i])])

AtLeastHalfNumeric(numericValues, nonNullValues) ==
    2 * Len(numericValues) >= Len(nonNullValues)
\* numericValues.length > nonNullValues.length * 0.5
MostlyNumeric(numericValues, nonNullValues) ==
    2 * Len(numericValues) > Len(nonNullValues)

\* whether the forEach body counts the header as numeric
HeaderIsNumeric(header, rows) ==
    LET nonNullValues == NonNullValues(ColumnValues(header, rows))
    IN  MostlyNumeric(SummaryNumericValues(nonNullValues), nonNullValues)

\* columnValues.length - nonNullValues.length
HeaderMissing(header, rows) ==
    Len(ColumnValues(header, rows)) - Len(NonNullValues(ColumnValues(header, rows)))

RECURSIVE SummaryLoop(_, _, _)
\* headers.forEach(...): the three counters after the first k headers
SummaryLoop(hs, rows, k) ==
    IF k = 0 THEN [numericColumns |-> 0, textColumns |-> 0, totalMissingValues |-> 0]
    ELSE LET before == SummaryLoop(hs, rows, k - 1)
             numeric == HeaderIsNumeric(hs[k], rows)
         IN  [numericColumns |-> before.numericColumns + (IF numeric THEN 1 ELSE 0),
              textColumns |-> before.textColumns + (IF numeric THEN 0 ELSE 1),
              totalMissingValues |-> before.totalMissingValues + HeaderMissing(hs[k], rows)]

\* totalRecords > 0 ? Math.round(((cells - missing) / cells) * 100) : 100,
\* cells = totalRecords * totalColumns
DataQuality(totalRecords, totalColumns, totalMissingValues) ==
    IF totalRecords > 0
    THEN Round(Mul(Div(Int2Num(totalRecords * totalColumns - totalMissingValues),
                       Int2Num(totalRecords * totalColumns)),
                   Int2Num(100)))
    ELSE Int2Num(100)

CalculateSummaryStats(hs, rows) ==
    LET totalRecords == Len(rows)
        totalColumns == Len(hs)
        counters == SummaryLoop(hs, rows, Len(hs))
    IN  [totalRecords |-> totalRecords,
         totalColumns |-> totalColumns,
         numericColumns |-> counters.numericColumns,
         textColumns |-> counters.textColumns,
         missingValues |-> counters.totalMissingValues,
         dataQuality |-> DataQuality(totalRecords, totalColumns, counters.totalMissingValues)]

---------------------------------------------------------------------------
(* Client: detectColumnType(values) of chart-utils.ts *)

BooleanWords ==
    {<<"t", "r", "u", "e">>, <<"f", "a", "l", "s", "e">>, <<"y", "e", "s">>,
     <<"n", "o">>, <<"1">>, <<"0">>}

\* typeof v === 'boolean' ||
\* (typeof v === 'string' && [...].includes(v.toLowerCase()))
IsBooleanLike(v) ==
    v.t = "bool" \/ (v.t = "str" /\ ToLowerCase(v.s) \in BooleanWords)

\* number: true; string: !isNaN(parseFloat(v.replace(/[$,]/g, ''))); else false
IsNumericLike(v) ==
    CASE v.t = "num" -> TRUE
      [] v.t = "str" -> ~IsNaN(ParseFloatStr(StripCurrency(v.s)))
      [] OTHER -> FALSE

\* the date-only ISO form YYYY-MM-DD, which every engine parses
IsIsoDate(s) ==
    /\ Len(s) = 10
    /\ \A i \in {1, 2, 3, 4, 6, 7, 9, 10} : IsDigit(s[i])
    /\ s[5] = "-" /\ s[8] = "-"
    /\ DigitsValue(s, 6, 8) \in 1..12
    /\ DigitsValue(s, 9, 11) \in 1..31

\* !isNaN(new Date(s).getTime()) for a string s.  Outside the ISO forms the
\* parse is implementation-defined: a string without any digit is rejected by
\* every engine, any other string is accepted or not depending on the engine
\* (V8 reads "1" as January 2001)
DateStringValid(s, fallbackAccepts) ==
    \/ IsIsoDate(s)
    \/ fallbackAccepts /\ \E i \in 1..Len(s) : IsDigit(s[i])

\* v instanceof Date; string: !isNaN(new Date(v).getTime()); else false
IsDateLike(v, fallbackAccepts) ==
    CASE v.t = "date" -> TRUE
      [] v.t = "str" -> DateStringValid(v.s, fallbackAccepts)
      [] OTHER -> FALSE

AtLeastMajority(matching, nonNullValues) ==
    10 * Len(matching) >= 8 * Len(nonNullValues)
\* matching.length > nonNullValues.length * 0.8
IsMajority(matching, nonNullValues) ==
    10 * Len(matching) > 8 * Len(nonNullValues)

DetectNumberFirst(values, fallbackAccepts) ==
    LET nonNullValues == NonNullValues(values)
    IN  IF Len(nonNullValues) = 0 THEN "text"
        ELSE IF IsMajority(SelectSeq(nonNullValues, IsNumericLike), nonNullValues)
        THEN "number"
        ELSE IF IsMajority(SelectSeq(nonNullValues, IsBooleanLike), nonNullValues)
        THEN "boolean"
        ELSE IF IsMajority(SelectSeq(nonNullValues, LAMBDA v : IsDateLike(v, fallbackAccepts)),
                           nonNullValues)
        THEN "date"
        ELSE "text"
DetectColumnType(values, fallbackAccepts) ==
    LET nonNullValues == NonNullValues(values)
    IN  IF Len(nonNullValues) = 0 THEN "text"
        ELSE IF IsMajority(SelectSeq(nonNullValues, IsBooleanLike), nonNullValues)
        THEN "boolean"
        ELSE IF IsMajority(SelectSeq(nonNullValues, IsNumericLike), nonNullValues)
        THEN "number"
        ELSE IF IsMajority(SelectSeq(nonNullValues, LAMBDA v : IsDateLike(v, fallbackAccepts)),
                           nonNullValues)
        THEN "date"
        ELSE "text"

---------------------------------------------------------------------------
(* Specification Spec: the column statistics functions applied to a column *)

S100 == <<"1", "0", "0">>
S200 == <<"2", "0", "0">>
Sabc == <<"a", "b", "c">>
SDollar1200 == <<"$", "1", ",", "2", "0", "0">>

\* the cell values columns are drawn from
StatCells ==
    {Null, Undef, Str(<<>>), Str(S100), Str(S200), Str(Sabc), Str(SDollar1200),
     Str(InfinityWord), Str(<<"-">> \o InfinityWord), Num(9), Num(100), Bool(TRUE)}

ColumnTypes == {"text", "number", "date", "boolean"}

NoStats == BaseStats(<<>>, <<>>)
NoSummary ==
    [totalRecords |-> 0, totalColumns |-> 0, numericColumns |-> 0, textColumns |-> 0,
     missingValues |-> 0, dataQuality |-> Undefined]

\* the variables a specification does not use stay at these values
IdleColumn == col = <<>> /\ op = "none" /\ hint = "none" /\ stats = NoStats
IdleType == dtype = "none" /\ lenient = FALSE
IdleSummary == headers = <<>> /\ data = <<>> /\ summary = NoSummary
IdleChart == limit = 0 /\ gridStats = <<>> /\ points = <<>> /\ ctype = "none"
IdleServer == excelFiles = {} /\ excelData = {} /\ uploads = <<>> /\ lastRequest = [kind |-> "none"]
IdleTable ==
    /\ tableData = <<>> /\ searchTerm = <<>> /\ selectedColumn = "all"
    /\ sortColumn = "none" /\ sortDirection = "none" /\ currentPage = 1
IdleHook == isUploading = FALSE /\ uploadProgress = 0 /\ calls = <<>> /\ timers = {}
IdleAnalysis == IdleColumn /\ IdleType /\ IdleSummary /\ IdleChart

Init ==
    /\ col \in SeqUpTo(StatCells, MaxLen)
    /\ op = "none" /\ hint = "none" /\ stats = NoStats
    /\ IdleType
    /\ IdleSummary
    /\ IdleChart
    /\ IdleServer /\ IdleTable /\ IdleHook

\* the upload route's call calculateColumnStatistics(columnValues, header)
CallServerStatistics ==
    /\ op = "none"
    /\ op' = "server"
    /\ stats' = ServerColumnStatistics(col)
    /\ UNCHANGED <<col, hint, dtype, lenient, headers, data, summary, chartVars, otherVars>>

\* a call calculateColumnStatistics(values, columnType) of the client library
CallClientStatistics ==
    /\ op = "none"
    /\ \E columnType \in ColumnTypes :
          /\ hint' = columnType
          /\ stats' = ClientColumnStatistics(col, columnType)
    /\ op' = "client"
    /\ UNCHANGED <<col, dtype, lenient, headers, data, summary, chartVars, otherVars>>

Next == CallServerStatistics \/ CallClientStatistics

Spec == Init /\ [][Next]_vars

---------------------------------------------------------------------------
(* Properties of calculateColumnStatistics *)

Called == op \in {"server", "client"}

\* the positions of col holding a value that is not null, undefined or ''
NonNullAt == {i \in 1..Len(col) : col[i] \notin {Null, Undef, Str(<<>>)}}
\* the positions whose value the called function parses to a number
ParsedAt ==
    {i \in NonNullAt :
        ~IsNaN(IF op = "client" THEN ClientParse(col[i]) ELSE ServerParse(col[i]))}
\* the parsed values, in column order
Parsed ==
    IF op = "client" THEN ClientNumericValues(NonNullValues(col))
    ELSE ServerNumericValues(NonNullValues(col))

NumericFields == {"mean", "min", "max", "range", "median", "variance", "standardDeviation"}
HasNumericFields == \A f \in NumericFields : stats[f] # Undefined
NoNumericFields == \A f \in NumericFields : stats[f] = Undefined

C2_CountAndNullCount ==
    Called =>
        /\ stats.count = Len(col)
        /\ stats.nullCount = Len(col) - Cardinality(NonNullAt)
        /\ 0 <= stats.nullCount /\ stats.nullCount <= stats.count

\* a base-only profile of a column that mixes empty strings, nulls and values
C2_Witness ==
    /\ Called
    /\ NoNumericFields /\ ~stats.mode.has
    /\ \E i, j, m \in 1..Len(col) : col[i] = Null /\ col[j] = Str(<<>>) /\ m \in NonNullAt

\* x * x, where the square of the surd sqrt(n/d) is n/d
Square(x) == IF x.k = "surd" THEN Fin(x.n, x.d) ELSE Mul(x, x)

\* C3: in the numeric branch min <= median <= max, and standardDeviation
\* squared equals variance.
C3_OrderAndDeviation ==
    (Called /\ HasNumericFields) =>
        /\ Le(stats.min, stats.median)
        /\ Le(stats.median, stats.max)
        /\ EqNum(Square(stats.standardDeviation), stats.variance)

\* the same for columns whose parsed values are all finite
AllFinite == \A i \in 1..Len(Parsed) : ToNumber(Parsed[i]).k = "fin"
C3_FiniteColumns ==
    (Called /\ HasNumericFields /\ AllFinite) =>
        /\ Le(stats.min, stats.median)
        /\ Le(stats.median, stats.max)
        /\ EqNum(Square(stats.standardDeviation), stats.variance)

\* the k-th smallest of the numbers xs (none is NaN), found by rank
KthSmallest(xs, k) ==
    ToNumber(xs[CHOOSE i \in 1..Len(xs) :
        /\ Cardinality({j \in 1..Len(xs) : Lt(xs[j], xs[i])}) < k
        /\ k <= Cardinality({j \in 1..Len(xs) : Le(xs[j], xs[i])})])

\* C4: with S the parsed values in ascending order and n their number, median
\* is S[(n-1)/2] for odd n and the average of S[n/2 - 1] and S[n/2] for even n
\* (0-based), whatever the order of the column.
C4_Median ==
    (Called /\ HasNumericFields) =>
        LET n == Len(Parsed)
        IN  ToNumber(stats.median) =
                IF n % 2 = 1 THEN KthSmallest(Parsed, (n + 1) \div 2)
                ELSE DivNum(AddNum(KthSmallest(Parsed, n \div 2),
                                   KthSmallest(Parsed, (n \div 2) + 1)),
                            Int2Num(2))

\* an even number of parsed values, in descending order, with two different
\* middle values, one of them unparsed text in between
C4_Witness ==
    /\ Called /\ HasNumericFields
    /\ Len(col) = 3 /\ Len(Parsed) = 2
    /\ Lt(Parsed[2], Parsed[1])
    /\ stats.median = Int2Num(150)

RECURSIVE SumOver(_, _)
\* the sum of f over the set of positions I
SumOver(f, I) ==
    IF I = {} THEN Int2Num(0)
    ELSE LET i == CHOOSE j \in I : TRUE IN AddNum(f[i], SumOver(f, I \ {i}))

\* the value parsed at position i of col
ParsedValue(i) ==
    ToNumber(IF op = "client" THEN ClientParse(col[i]) ELSE ServerParse(col[i]))

\* C5: mean and variance range over exactly the n values that parsed (nulls,
\* empty and unparseable cells are left out of n but are counted in count);
\* variance is the population variance, E[x^2] - mean^2; and the column
\* ["100", "200", null] gives count 3, nullCount 1, mean 150, min 100,
\* max 200, median 150, variance 2500, standardDeviation 50.
C5_MeanAndVariance ==
    /\ (Called /\ HasNumericFields) =>
          LET n == Int2Num(Cardinality(ParsedAt))
              sum == SumOver([i \in ParsedAt |-> ParsedValue(i)], ParsedAt)
              squares == SumOver([i \in ParsedAt |-> MulNum(ParsedValue(i), ParsedValue(i))],
                                 ParsedAt)
          IN  /\ stats.mean = DivNum(sum, n)
              /\ stats.variance =
                    AddNum(DivNum(squares, n), Neg(MulNum(DivNum(sum, n), DivNum(sum, n))))
    /\ (Called /\ HasNumericFields /\ col = <<Str(S100), Str(S200), Null>>) =>
          /\ stats.count = 3 /\ stats.nullCount = 1
          /\ stats.mean = Int2Num(150)
          /\ stats.min = Int2Num(100) /\ stats.max = Int2Num(200)
          /\ stats.median = Int2Num(150)
          /\ stats.variance = Int2Num(2500)
          /\ stats.standardDeviation = Int2Num(50)

\* the server has analysed the column ["100", "200", null]
C5_Witness ==
    /\ op = "server"
    /\ col = <<Str(S100), Str(S200), Null>>
    /\ HasNumericFields

---------------------------------------------------------------------------
(* Specification SpecSummary: calculateSummaryStats applied to a dataset *)

\* the header lists: none, one, two different and a repeated header
HeaderLists ==
    {<<>>, <<"Region">>, <<"Region", "Sales">>, <<"Sales", "Sales">>}

\* the cell values of the rows
SummaryCells == {Null, Undef, Str(<<>>), Str(S100), Str(Sabc)}

\* the row objects over the names of a header list
RowsOver(hs) == [{hs[i] : i \in 1..Len(hs)} -> SummaryCells]

InitSummary ==
    /\ headers \in HeaderLists
    /\ data \in SeqUpTo(RowsOver(headers), MaxRows)
    /\ summary = NoSummary
    /\ IdleColumn
    /\ IdleType
    /\ IdleChart
    /\ IdleServer /\ IdleTable /\ IdleHook

\* the upload route's call calculateSummaryStats(headers, data)
CallSummaryStats ==
    /\ op = "none"
    /\ op' = "summary"
    /\ summary' = CalculateSummaryStats(headers, data)
    /\ UNCHANGED <<col, hint, stats, dtype, lenient, headers, data, chartVars, otherVars>>

NextSummary == CallSummaryStats

SpecSummary == InitSummary /\ [][NextSummary]_vars

---------------------------------------------------------------------------
(* Properties of calculateSummaryStats *)

Summarised == op = "summary"

\* the cells (row, header position) of the dataset, and the missing ones
AllCells == (1..Len(data)) \X (1..Len(headers))
MissingCells ==
    {c \in AllCells : Property(data[c[1]], headers[c[2]]) \in {Null, Undef, Str(<<>>)}}

\* the header positions with a numeric majority among their non-null values
NumericHeaderAt ==
    {h \in 1..Len(headers) :
        LET present == {r \in 1..Len(data) : <<r, h>> \notin MissingCells}
            parsed == {r \in present :
                        LET v == data[r][headers[h]]
                        IN  ~IsNaN(IF v.t = "str" THEN ParseFloatStr(v.s) ELSE CellValue(v))}
        IN  2 * Cardinality(parsed) > Cardinality(present)}

\* C6: numericColumns + textColumns = totalColumns = the number of headers,
\* totalRecords = the number of rows, and a header counts as numeric iff
\* strictly more than half of its non-null values parse as numbers (so a
\* column without non-null values counts as text).
C6_ColumnPartition ==
    Summarised =>
        /\ summary.numericColumns + summary.textColumns = summary.totalColumns
        /\ summary.totalColumns = Len(headers)
        /\ summary.totalRecords = Len(data)
        /\ summary.numericColumns = Cardinality(NumericHeaderAt)

\* two headers over three rows: one counted as numeric, the other, with
\* exactly half of its non-null values numeric, counted as text
C6_Witness ==
    /\ Summarised
    /\ Len(headers) = 2 /\ Len(data) = 3
    /\ summary.numericColumns = 1 /\ summary.textColumns = 1
    /\ \E h \in 1..Len(headers) :
          /\ Cardinality({r \in 1..Len(data) : data[r][headers[h]] = Str(S100)}) = 1
          /\ Cardinality({r \in 1..Len(data) : data[r][headers[h]] = Str(Sabc)}) = 1
          /\ h \notin NumericHeaderAt

\* C7 as stated: missingValues is the number of cells that are null,
\* undefined or empty, 0 <= missingValues <= totalRecords * totalColumns, and
\* dataQuality is an integer in [0, 100], equal to
\* round(100 * (cells - missingValues) / cells) where cells > 0; 3 rows,
\* 2 columns and 1 missing cell give 83.
C7_MissingAndQuality ==
    Summarised =>
        LET cells == summary.totalRecords * summary.totalColumns
        IN  /\ summary.missingValues = Cardinality(MissingCells)
            /\ 0 <= summary.missingValues /\ summary.missingValues <= cells
            /\ summary.dataQuality.k = "fin" /\ summary.dataQuality.d = 1
            /\ summary.dataQuality.n \in 0..100
            /\ cells > 0 =>
                  summary.dataQuality.n =
                      (200 * (cells - summary.missingValues) + cells) \div (2 * cells)
            /\ (Len(data) = 3 /\ Len(headers) = 2 /\ summary.missingValues = 1) =>
                  summary.dataQuality = Int2Num(83)

\* the same for datasets that have a header or have no row
C7_WithHeaders ==
    (Summarised /\ (Len(headers) > 0 \/ Len(data) = 0)) => C7_MissingAndQuality

\* C8 as stated: dataQuality is 100 whenever no cell is missing and whenever
\* totalRecords is 0, for every header list, the empty one included.
C8_PerfectQuality ==
    Summarised =>
        /\ MissingCells = {} => summary.dataQuality = Int2Num(100)
        /\ summary.totalRecords = 0 => summary.dataQuality = Int2Num(100)

\* the same for datasets that have a header or have no row
C8_WithHeaders ==
    (Summarised /\ (Len(headers) > 0 \/ Len(data) = 0)) => C8_PerfectQuality

---------------------------------------------------------------------------
(* Specification SpecType: detectColumnType applied to a column *)

SYes == <<"Y", "e", "s">>
SIsoDate == <<"2", "0", "2", "0", "-", "0", "1", "-", "1", "5">>

\* the cell values: boolean-like and numeric ("1"), boolean-like only ("Yes",
\* true), numeric only (42), numeric and a date (the ISO string), a date only
\* (a Date object), none of them ("abc"), and null
TypeCells ==
    {Null, Str(<<"1">>), Str(SYes), Bool(TRUE), Num(42), Str(SIsoDate), DateObj(0),
     Str(Sabc)}

InitType ==
    /\ col \in SeqUpTo(TypeCells, MaxTypeLen)
    /\ lenient \in BOOLEAN
    /\ op = "none" /\ hint = "none" /\ stats = NoStats
    /\ dtype = "none"
    /\ IdleSummary
    /\ IdleChart
    /\ IdleServer /\ IdleTable /\ IdleHook

\* a call detectColumnType(values)
CallDetectColumnType ==
    /\ op = "none"
    /\ op' = "detect"
    /\ dtype' = DetectColumnType(col, lenient)
    /\ UNCHANGED <<col, hint, stats, lenient, headers, data, summary, chartVars, otherVars>>

NextType == CallDetectColumnType

SpecType == InitType /\ [][NextType]_vars

---------------------------------------------------------------------------
(* Properties of detectColumnType *)

Detected == op = "detect"

BooleanAt == {i \in NonNullAt : IsBooleanLike(col[i])}
NumericAt == {i \in NonNullAt : IsNumericLike(col[i])}
DateAt == {i \in NonNullAt : IsDateLike(col[i], lenient)}

\* strictly more than 80% of the non-null values
Over80(I) == 5 * Cardinality(I) > 4 * Cardinality(NonNullAt)

\* C9: detectColumnType is the ordered cascade: text for no non-null value,
\* else boolean, number, date for the first of the three counts that is
\* strictly greater than 0.8 * |nonNull|, else text; exactly 80% does not
\* qualify.
C9_Cascade ==
    Detected =>
        dtype = IF NonNullAt = {} THEN "text"
                ELSE IF Over80(BooleanAt) THEN "boolean"
                ELSE IF Over80(NumericAt) THEN "number"
                ELSE IF Over80(DateAt) THEN "date"
                ELSE "text"

\* five non-null values of which exactly four are numeric: not a number column
C9_Witness ==
    /\ Detected
    /\ Cardinality(NonNullAt) = 5
    /\ Cardinality(NumericAt) = 4
    /\ BooleanAt = {} /\ DateAt = {}
    /\ dtype = "text"

\* C10 as stated: boolean whenever the boolean and the numeric majority both
\* hold, and number whenever the numeric and the date majority both hold.
C10_Precedence ==
    Detected =>
        /\ (Over80(BooleanAt) /\ Over80(NumericAt)) => dtype = "boolean"
        /\ (Over80(NumericAt) /\ Over80(DateAt)) => dtype = "number"

\* C10 amended: boolean whenever the boolean and the numeric majority both
\* hold, and number whenever the numeric and the date majority hold and the
\* boolean majority does not.
C10_PrecedenceAmended ==
    Detected =>
        /\ (Over80(BooleanAt) /\ Over80(NumericAt)) => dtype = "boolean"
        /\ (Over80(NumericAt) /\ Over80(DateAt) /\ ~Over80(BooleanAt)) => dtype = "number"

\* a column with the numeric and the date majority and no boolean majority
C10_Witness ==
    /\ Detected
    /\ Over80(NumericAt) /\ Over80(DateAt) /\ ~Over80(BooleanAt)
    /\ \E i \in 1..Len(col) : col[i] = Str(<<"1">>)
    /\ dtype = "number"

---------------------------------------------------------------------------
(* Chart helpers of the client library (chart-utils.ts) *)

\* the two columns a chart reads from every row
XColumn == "x"
YColumn == "y"

\* parseFloat(v) for any cell: v is converted to a string first
ParseFloat(v) == ParseFloatStr(ToStr(v))

\* array.filter(v => !isNaN(parseFloat(v))).length
NumericCount(values) == Len(SelectSeq(values, LAMBDA v : ~IsNaN(ParseFloat(v))))

\* new Set(values).size
SetSize(values) == Cardinality({values[i] : i \in 1..Len(values)})

\* the cascade with the bar rule tried before the scatter rule
GetOptimalChartTypeBarFirst(rows, xColumn, yColumn) ==
    IF Len(rows) = 0 THEN "bar"
    ELSE LET xValues == ColumnValues(xColumn, rows)
             yValues == ColumnValues(yColumn, rows)
             xNumeric == NumericCount(xValues)
             yNumeric == NumericCount(yValues)
             uniqueXValues == SetSize(xValues)
             totalXValues == Len(xValues)
         IN  IF 2 * uniqueXValues < totalXValues /\ 5 * yNumeric > 4 * totalXValues
                THEN "bar"
             ELSE IF 5 * xNumeric > 4 * totalXValues /\ 5 * yNumeric > 4 * totalXValues
                     /\ totalXValues > 20
                THEN "scatter"
             ELSE IF 5 * xNumeric > 4 * totalXValues /\ 5 * yNumeric > 4 * totalXValues
                THEN "line"
             ELSE IF uniqueXValues < 10 /\ uniqueXValues > 1 THEN "pie"
             ELSE "bar"

\* getOptimalChartType(data, xColumn, yColumn); xNumeric and yNumeric are
\* kept as counts, so that count / length > 0.8 is 5 * count > 4 * length and
\* unique < length * 0.5 is 2 * unique < length
GetOptimalChartType(rows, xColumn, yColumn) ==
    IF Len(rows) = 0 THEN "bar"
    ELSE LET xValues == ColumnValues(xColumn, rows)
             yValues == ColumnValues(yColumn, rows)
             xNumeric == NumericCount(xValues)
             yNumeric == NumericCount(yValues)
             uniqueXValues == SetSize(xValues)
             totalXValues == Len(xValues)
         IN  IF 5 * xNumeric > 4 * totalXValues /\ 5 * yNumeric > 4 * totalXValues
                /\ totalXValues > 20
                THEN "scatter"
             ELSE IF 2 * uniqueXValues < totalXValues /\ 5 * yNumeric > 4 * totalXValues
                THEN "bar"
             ELSE IF 5 * xNumeric > 4 * totalXValues /\ 5 * yNumeric > 4 * totalXValues
                THEN "line"
             ELSE IF uniqueXValues < 10 /\ uniqueXValues > 1 THEN "pie"
             ELSE "bar"

---------------------------------------------------------------------------
(* Specification SpecChartType: getOptimalChartType on row lists made of two
   runs of rows; a run fixes the y cell and the kind of its x cells *)

MaxRun == 27

\* the x cells of a run: the row number, the string "7", a label that differs
\* from row to row, or the string "abc"
XKinds == {"index", "seven", "label", "abc"}
XCell(kind, i) ==
    CASE kind = "index" -> Num(i)
      [] kind = "seven" -> Str(<<"7">>)
      [] kind = "label" -> Str(<<"r">> \o NatToStr(i))
      [] kind = "abc" -> Str(Sabc)

RunYCells == {Str(S100), Str(Sabc)}

\* n rows of one kind, numbered from + 1 .. from + n
Run(kind, y, from, n) == [i \in 1..n |-> [x |-> XCell(kind, from + i), y |-> y]]

InitChartType ==
    /\ \E k1 \in XKinds, k2 \in XKinds, y1 \in RunYCells, y2 \in RunYCells,
          n1 \in 0..MaxRun, n2 \in 0..MaxRun :
          data = Run(k1, y1, 0, n1) \o Run(k2, y2, n1, n2)
    /\ headers = <<XColumn, YColumn>>
    /\ summary = NoSummary
    /\ IdleColumn
    /\ IdleType
    /\ IdleChart
    /\ IdleServer /\ IdleTable /\ IdleHook

\* a call getOptimalChartType(data, xColumn, yColumn)
CallGetOptimalChartType ==
    /\ op = "none"
    /\ op' = "charttype"
    /\ ctype' = GetOptimalChartType(data, XColumn, YColumn)
    /\ UNCHANGED <<col, hint, stats, dtype, lenient, headers, data, summary,
                   limit, gridStats, points, otherVars>>

NextChartType == CallGetOptimalChartType

SpecChartType == InitChartType /\ [][NextChartType]_vars

---------------------------------------------------------------------------
(* Properties of getOptimalChartType *)

TypeChosen == op = "charttype"

RowCount == Len(data)
\* the rows whose x / y value parses as a number
XNumericRows == {i \in 1..Len(data) : ~IsNaN(ParseFloat(data[i].x))}
YNumericRows == {i \in 1..Len(data) : ~IsNaN(ParseFloat(data[i].y))}
\* the distinct x values
UniqueX == {data[i].x : i \in 1..Len(data)}

\* more than 80% of the rows are in R
MostRows(R) == 5 * Cardinality(R) > 4 * RowCount

\* C11: getOptimalChartType returns bar for an empty row list; otherwise
\* scatter if both numeric fractions exceed 0.8 and there are more than 20
\* rows; else bar if there are fewer distinct x values than half the rows and
\* the y fraction exceeds 0.8; else line if both fractions exceed 0.8; else
\* pie if there are more than 1 and fewer than 10 distinct x values; else bar.
\* 30 rows with both columns at least 90% numeric give scatter.
C11_Cascade ==
    TypeChosen =>
        /\ ctype =
             (IF RowCount = 0 THEN "bar"
              ELSE IF MostRows(XNumericRows) /\ MostRows(YNumericRows) /\ RowCount > 20
                 THEN "scatter"
              ELSE IF 2 * Cardinality(UniqueX) < RowCount /\ MostRows(YNumericRows)
                 THEN "bar"
              ELSE IF MostRows(XNumericRows) /\ MostRows(YNumericRows) THEN "line"
              ELSE IF Cardinality(UniqueX) > 1 /\ Cardinality(UniqueX) < 10 THEN "pie"
              ELSE "bar")
        /\ (/\ RowCount = 30
            /\ 10 * Cardinality(XNumericRows) >= 9 * RowCount
            /\ 10 * Cardinality(YNumericRows) >= 9 * RowCount) => ctype = "scatter"

\* 30 rows, both columns 90% numeric, only two distinct x values: scatter,
\* although the bar rule would apply as well
C11_Witness ==
    /\ TypeChosen
    /\ RowCount = 30
    /\ 10 * Cardinality(XNumericRows) = 9 * RowCount
    /\ 10 * Cardinality(YNumericRows) = 9 * RowCount
    /\ Cardinality(UniqueX) = 2
    /\ ctype = "scatter"

---------------------------------------------------------------------------
(* Chart projections of the client library (chart-utils.ts) *)

\* the truthiness of a cell, as tested by `v || fallback`
Truthy(v) ==
    CASE v.t = "str" -> v.s # <<>>
      [] v.t = "num" -> v.n # 0
      [] v.t = "bool" -> v.n = 1
      [] v.t = "date" -> TRUE
      [] OTHER -> FALSE

\* n || 0 for a number n: NaN and 0 are falsy
OrZero(n) == IF IsNaN(n) \/ n = Int2Num(0) THEN Int2Num(0) ELSE n

\* array.slice(0, n) for n >= 0
Take(s, n) == SubSeq(s, 1, IF n < Len(s) THEN n ELSE Len(s))

\* `Item ${index + 1}`, with position = index + 1
ItemLabel(position) == Str(<<"I", "t", "e", "m", " ">> \o NatToStr(position))
UnknownWord == <<"U", "n", "k", "n", "o", "w", "n">>

\* row[column] || fallback
OrElse(v, fallback) == IF Truthy(v) THEN v ELSE fallback

\* prepareBarChartData(data, xColumn, yColumn, limit)
PrepareBarChartData(rows, xColumn, yColumn, lim) ==
    LET first == Take(rows, lim)
        mapped == [i \in 1..Len(first) |->
                     [name |-> ToStr(OrElse(Property(first[i], xColumn), ItemLabel(i))),
                      value |-> OrZero(ParseFloat(Property(first[i], yColumn)))]]
    IN  SelectSeq(mapped, LAMBDA item : ~IsNaN(item.value))

\* prepareLineChartData(data, xColumn, yColumn, limit)
PrepareLineChartData(rows, xColumn, yColumn, lim) ==
    LET first == Take(rows, lim)
        mapped == [i \in 1..Len(first) |->
                     [name |-> ToStr(OrElse(Property(first[i], xColumn), Num(i - 1))),
                      value |-> OrZero(ParseFloat(Property(first[i], yColumn)))]]
    IN  SelectSeq(mapped, LAMBDA item : ~IsNaN(item.value))

\* the group key of every row: String(row[column] || 'Unknown')
GroupKeys(rows, column) ==
    [i \in 1..Len(rows) |-> ToStr(OrElse(Property(rows[i], column), Str(UnknownWord)))]

\* Object.entries(groups) as points, in the key order of the object
GroupEntries(keys) ==
    LET names == ObjectKeys(keys)
    IN  [j \in 1..Len(names) |-> [name |-> names[j], value |-> CountOf(keys, names[j])]]

RECURSIVE SortDescending(_)
\* entries.sort(([,a], [,b]) => b - a): a stable sort, larger counts first
SortDescending(entries) ==
    IF entries = <<>> THEN <<>>
    ELSE LET front == SortDescending(SubSeq(entries, 1, Len(entries) - 1))
             last == entries[Len(entries)]
             keep == Cardinality({j \in 1..Len(front) : front[j].value >= last.value})
         IN  SubSeq(front, 1, keep) \o <<last>> \o SubSeq(front, keep + 1, Len(front))

\* preparePieChartData(data, column, limit)
PreparePieChartData(rows, column, lim) ==
    Take(SortDescending(GroupEntries(GroupKeys(rows, column))), lim)

\* prepareScatterData(data, xColumn, yColumn, limit)
PrepareScatterData(rows, xColumn, yColumn, lim) ==
    LET first == Take(rows, lim)
        mapped == [i \in 1..Len(first) |->
                     [name |-> ToStr(Property(first[i], xColumn)) \o <<",", " ">>
                                  \o ToStr(Property(first[i], yColumn)),
                      value |-> OrZero(ParseFloat(Property(first[i], yColumn))),
                      x |-> OrZero(ParseFloat(Property(first[i], xColumn))),
                      y |-> OrZero(ParseFloat(Property(first[i], yColumn)))]]
    IN  SelectSeq(mapped, LAMBDA item : ~IsNaN(item.x) /\ ~IsNaN(item.y))

---------------------------------------------------------------------------
(* Specification SpecChart: the four projections of chart-utils.ts *)

MaxChartRows == 3
MaxLimit == 3

ChartXCells == {Str(<<"A">>), Str(<<"b">>), Str(<<"2">>), Num(0), Null}
ChartYCells == {Str(S100), Str(Sabc)}
ChartRows == [x : ChartXCells, y : ChartYCells]

InitChart ==
    /\ data \in SeqUpTo(ChartRows, MaxChartRows)
    /\ limit \in 0..MaxLimit
    /\ headers = <<XColumn, YColumn>>
    /\ summary = NoSummary
    /\ gridStats = <<>> /\ points = <<>> /\ ctype = "none"
    /\ IdleServer /\ IdleTable /\ IdleHook
    /\ IdleColumn
    /\ IdleType

\* a call prepareBarChartData(data, xColumn, yColumn, limit)
CallPrepareBarChartData ==
    /\ op = "none"
    /\ op' = "bar"
    /\ points' = PrepareBarChartData(data, XColumn, YColumn, limit)
    /\ UNCHANGED <<col, hint, stats, dtype, lenient, headers, data, summary,
                   limit, gridStats, ctype, otherVars>>

\* a call prepareLineChartData(data, xColumn, yColumn, limit)
CallPrepareLineChartData ==
    /\ op = "none"
    /\ op' = "line"
    /\ points' = PrepareLineChartData(data, XColumn, YColumn, limit)
    /\ UNCHANGED <<col, hint, stats, dtype, lenient, headers, data, summary,
                   limit, gridStats, ctype, otherVars>>

\* a call preparePieChartData(data, column, limit)
CallPreparePieChartData ==
    /\ op = "none"
    /\ op' = "pie"
    /\ points' = PreparePieChartData(data, XColumn, limit)
    /\ UNCHANGED <<col, hint, stats, dtype, lenient, headers, data, summary,
                   limit, gridStats, ctype, otherVars>>

\* a call prepareScatterData(data, xColumn, yColumn, limit)
CallPrepareScatterData ==
    /\ op = "none"
    /\ op' = "scatter"
    /\ points' = PrepareScatterData(data, XColumn, YColumn, limit)
    /\ UNCHANGED <<col, hint, stats, dtype, lenient, headers, data, summary,
                   limit, gridStats, ctype, otherVars>>

NextChart ==
    \/ CallPrepareBarChartData
    \/ CallPrepareLineChartData
    \/ CallPreparePieChartData
    \/ CallPrepareScatterData

SpecChart == InitChart /\ [][NextChart]_vars

---------------------------------------------------------------------------
(* The projections of the ChartsGrid component, which reads its columns from
   the statistics prop: gstats[h] is "numeric" when statistics.columns[h] has
   a number as mean, "text" when it has none, "absent" without an entry *)

GridPieLimit == 6
GridScatterLimit == 50

\* headers.filter(h => columnStats && typeof columnStats.mean === 'number')
GridNumericColumns(hs, gstats) == SelectSeq(hs, LAMBDA h : gstats[h] = "numeric")

\* headers.find(h => columnStats && typeof columnStats.mean !== 'number') || headers[0]
GridTextColumn(hs, gstats) ==
    LET found == SelectSeq(hs, LAMBDA h : gstats[h] = "text")
    IN  IF found # <<>> THEN found[1] ELSE hs[1]

\* preparePieChartData() of ChartsGrid
GridPieChartData(rows, hs, gstats) ==
    IF Len(hs) = 0 THEN <<>>
    ELSE Take(GroupEntries(GroupKeys(rows, GridTextColumn(hs, gstats))), GridPieLimit)

\* prepareScatterData() of ChartsGrid
GridScatterData(rows, hs, gstats) ==
    LET numericColumns == GridNumericColumns(hs, gstats)
        first == Take(rows, GridScatterLimit)
    IN  IF Len(numericColumns) < 2 THEN <<>>
        ELSE [i \in 1..Len(first) |->
                [x |-> OrZero(ParseFloat(Property(first[i], numericColumns[1]))),
                 y |-> OrZero(ParseFloat(Property(first[i], numericColumns[2])))]]

---------------------------------------------------------------------------
(* Specification SpecGrid: the pie and scatter data of ChartsGrid *)

GridXCells == {Str(<<"A">>), Str(<<"2">>), Null}
GridRows == [x : GridXCells, y : ChartYCells]
GridStatKinds == {"numeric", "text", "absent"}

InitGrid ==
    /\ data \in SeqUpTo(GridRows, MaxChartRows)
    /\ headers = <<XColumn, YColumn>>
    /\ gridStats \in [{XColumn, YColumn} -> GridStatKinds]
    /\ summary = NoSummary
    /\ limit = 0 /\ points = <<>> /\ ctype = "none"
    /\ IdleServer /\ IdleTable /\ IdleHook
    /\ IdleColumn
    /\ IdleType

\* ChartsGrid: const pieData = preparePieChartData()
CallGridPieChartData ==
    /\ op = "none"
    /\ op' = "gridpie"
    /\ points' = GridPieChartData(data, headers, gridStats)
    /\ UNCHANGED <<col, hint, stats, dtype, lenient, headers, data, summary,
                   limit, gridStats, ctype, otherVars>>

\* ChartsGrid: const scatterData = prepareScatterData()
CallGridScatterData ==
    /\ op = "none"
    /\ op' = "gridscatter"
    /\ points' = GridScatterData(data, headers, gridStats)
    /\ UNCHANGED <<col, hint, stats, dtype, lenient, headers, data, summary,
                   limit, gridStats, ctype, otherVars>>

NextGrid == CallGridPieChartData \/ CallGridScatterData

SpecGrid == InitGrid /\ [][NextGrid]_vars

---------------------------------------------------------------------------
(* Properties of the pie projection *)

PieProjected == op \in {"pie", "gridpie"}

\* the column the projection groups by, and the most points it may return
PieColumn == IF op = "pie" THEN XColumn ELSE GridTextColumn(headers, gridStats)
PieLimit == IF op = "pie" THEN limit ELSE GridPieLimit

\* the group of every row, and the rows of a group
RowGroup == GroupKeys(data, PieColumn)
GroupSize(g) == Cardinality({i \in 1..Len(data) : RowGroup[i] = g})
Groups == {RowGroup[i] : i \in 1..Len(data)}
Returned == {points[j].name : j \in 1..Len(points)}

RECURSIVE SumValues(_)
SumValues(ps) == IF ps = <<>> THEN 0 ELSE ps[1].value + SumValues(Tail(ps))

\* C12: the pie projection returns at most `limit` points, each value is the
\* number of rows of its group, the values are in non-increasing order, no
\* omitted group is larger than a returned one, and the values sum to at
\* most the row count.
C12_PieProjection ==
    PieProjected =>
        /\ Len(points) <= PieLimit
        /\ \A j \in 1..Len(points) : points[j].value = GroupSize(points[j].name)
        /\ \A j, k \in 1..Len(points) : j < k => points[j].value >= points[k].value
        /\ \A g \in Groups \ Returned :
              \A j \in 1..Len(points) : GroupSize(g) <= points[j].value
        /\ SumValues(points) <= Len(data)

\* the row in which group g is first seen
FirstSeen(g) == CHOOSE i \in 1..Len(data) : RowGroup[i] = g /\ \A h \in 1..(i - 1) : RowGroup[h] # g

\* C13: in the pie projection, groups with equal counts appear in the order
\* in which their key was first seen in the rows, whatever the key is
\* (integer-like keys included: rows ["b", "2"] give b before 2).
C13_TiesFirstSeen ==
    op = "pie" =>
        \A j, k \in 1..Len(points) :
            (j < k /\ points[j].value = points[k].value)
                => FirstSeen(points[j].name) < FirstSeen(points[k].name)

---------------------------------------------------------------------------
(* Properties of the bar, line and scatter projections *)

\* the rows within the limit
FirstRows == 1..(IF limit < Len(data) THEN limit ELSE Len(data))

\* the points are made, in row order, from rows of R: point j from row f[j],
\* and Made(j, f[j]) relates the two
MadeFrom(R, Made(_, _)) ==
    \E f \in [1..Len(points) -> R] :
        /\ \A j, k \in 1..Len(points) : j < k => f[j] < f[k]
        /\ \A j \in 1..Len(points) : Made(j, f[j])

\* the name the row at position i must get: the string form of its x cell,
\* or "Item i" for an empty cell
EmptyCell(v) == v \in {Null, Undef, Str(<<>>)}
ExpectedName(i) == IF EmptyCell(data[i].x) THEN ToStr(ItemLabel(i)) ELSE ToStr(data[i].x)

\* C14: the bar and line projections build points only from the first `limit`
\* rows, in row order; a point's name is the string form of row[xColumn]
\* when that cell is not empty (the number 0 gives "0") and "Item {index+1}"
\* when it is empty, in both variants.
C14_PointNames ==
    op \in {"bar", "line"} =>
        MadeFrom(FirstRows, LAMBDA j, i : points[j].name = ExpectedName(i))

IsFinite(n) == n.k = "fin"
YParses(i) == IsFinite(ParseFloat(data[i].y))
XParses(i) == IsFinite(ParseFloat(data[i].x))

\* C15: prepareBarChartData returns exactly one point for each of the first
\* `limit` rows whose yColumn cell parses to a finite number, and no point
\* for a row whose yColumn cell does not parse.
C15_BarDropsUnparsed ==
    op = "bar" =>
        LET parsed == {i \in FirstRows : YParses(i)}
        IN  /\ Len(points) = Cardinality(parsed)
            /\ MadeFrom(parsed, LAMBDA j, i : points[j].value = ParseFloat(data[i].y))

\* C16: every point of the scatter projection comes from one of the first
\* `limit` rows whose xColumn and yColumn cells both parse to finite numbers;
\* a row where either cell fails to parse yields no point.
C16_ScatterFilters ==
    op = "scatter" =>
        MadeFrom({i \in FirstRows : XParses(i) /\ YParses(i)},
                 LAMBDA j, i : /\ points[j].x = ParseFloat(data[i].x)
                               /\ points[j].y = ParseFloat(data[i].y))

---------------------------------------------------------------------------
(* Further properties of calculateColumnStatistics *)

\* the canonical form of a cell: its string form, which the number 100 and
\* the string "100" share
Canonical(v) == ToStr(v)

\* C17: uniqueCount is the number of distinct non-null values after each is
\* normalized to a canonical form (the number 1 and the string "1" count
\* once), and 0 <= uniqueCount <= count - nullCount.
C17_UniqueCount ==
    Called =>
        /\ stats.uniqueCount = Cardinality({Canonical(col[i]) : i \in NonNullAt})
        /\ 0 <= stats.uniqueCount
        /\ stats.uniqueCount <= stats.count - stats.nullCount

\* the number type inference reads in a cell it counts as numeric
InferredValue(v) == IF v.t = "str" THEN ParseFloatStr(StripCurrency(v.s)) ELSE Int2Num(v.n)

\* C18: column statistics treat a cell as numeric exactly when type inference
\* does, and with the same value: a string that is a number once `$` and `,`
\* are removed (such as "$1,200") is numeric for both.
C18_SameParseRule ==
    op = "server" =>
        /\ \A i \in NonNullAt : IsNumericLike(col[i]) <=> i \in ParsedAt
        /\ (Len(col) = 1 /\ NonNullAt = {1} /\ IsNumericLike(col[1]))
              => stats.mean = InferredValue(col[1])

\* the string forms of the non-null values, in column order
TextKeys == LET nonNull == NonNullValues(col) IN [i \in 1..Len(nonNull) |-> ToStr(nonNull[i])]
Frequency(key) == Cardinality({i \in 1..Len(TextKeys) : TextKeys[i] = key})
FirstAt(key) == CHOOSE i \in 1..Len(TextKeys) :
                    TextKeys[i] = key /\ \A h \in 1..(i - 1) : TextKeys[h] # key

\* C19: in the text branch the mode has the maximal frequency among the
\* non-null values, and among the values of maximal frequency it is the one
\* that occurs first in the column, integer-like string forms included.
C19_ModeFirstEncountered ==
    (Called /\ stats.mode.has) =>
        /\ \E i \in 1..Len(TextKeys) : TextKeys[i] = stats.mode.s
        /\ \A i \in 1..Len(TextKeys) :
              /\ Frequency(TextKeys[i]) <= Frequency(stats.mode.s)
              /\ Frequency(TextKeys[i]) = Frequency(stats.mode.s)
                    => FirstAt(stats.mode.s) <= i

\* a column handled as numeric that has a non-null value but no value that
\* parses
NumericWithoutValues ==
    /\ op = "client" /\ hint = "number"
    /\ NonNullAt # {}
    /\ ParsedAt = {}

---------------------------------------------------------------------------
(* Server: MemStorage and the routes /api/upload, DELETE /api/files/:fileId
   and /api/chart-data.  A sheet is [name, json, raises]: json is the array
   of arrays sheet_to_json returns, raises tells that analysing the sheet
   throws.  File ids are the request numbers, the id of a sheet entry is
   <<file id, position of the sheet>>: both are fresh, as randomUUID() is. *)

\* rows.map(...) with the rows stored last to first
ConvertRowsReversed(hs, rows) ==
    [i \in 1..Len(rows) |->
        [h \in {hs[k] : k \in 1..Len(hs)} |->
            LET index == CHOOSE k \in 1..Len(hs) :
                            hs[k] = h /\ \A later \in (k + 1)..Len(hs) : hs[later] # h
                row == rows[Len(rows) + 1 - i]
            IN  OrElse(IF index <= Len(row) THEN row[index] ELSE Undef, Null)]]

\* rows.map(row => { headers.forEach((header, index) => obj[header] =
\* row[index] || null) }): a header that occurs twice keeps its last column
ConvertRows(hs, rows) ==
    [i \in 1..Len(rows) |->
        [h \in {hs[k] : k \in 1..Len(hs)} |->
            LET index == CHOOSE k \in 1..Len(hs) :
                            hs[k] = h /\ \A later \in (k + 1)..Len(hs) : hs[later] # h
            IN  OrElse(IF index <= Len(rows[i]) THEN rows[i][index] ELSE Undef, Null)]]

\* the column statistics computed from the first row only
FirstRowColumnStats(hs, rows) ==
    [h \in {hs[k] : k \in 1..Len(hs)} |->
        ServerColumnStatistics(ColumnValues(h, SubSeq(rows, 1, 1)))]

\* headers.forEach(header => columnStats[header] =
\*     calculateColumnStatistics(data.map(row => row[header]), header))
ColumnStats(hs, rows) ==
    [h \in {hs[k] : k \in 1..Len(hs)} |-> ServerColumnStatistics(ColumnValues(h, rows))]

\* the entry the loop body builds for a sheet and createExcelData stores
SheetEntry(fileId, position, sheet) ==
    LET hs == sheet.json[1]
        rows == ConvertRows(hs, Tail(sheet.json))
    IN  [id |-> <<fileId, position>>,
         fileId |-> fileId,
         sheetName |-> sheet.name,
         headers |-> hs,
         data |-> rows,
         rowCount |-> Len(rows),
         columnCount |-> Len(hs),
         statistics |-> [columns |-> ColumnStats(hs, rows),
                         summary |-> CalculateSummaryStats(hs, rows)]]

\* deleteExcelFile without the removal of the sheet entries
KeepData(entries, id) == entries
\* MemStorage.deleteExcelFile: the entries left by
\* dataEntries.forEach(d => this.excelData.delete(d.id))
RemainingData(entries, id) == {d \in entries : d.fileId # id}

\* every request may start at any time
AlwaysIdle == TRUE
\* The continuation of an await on a storage call is a microtask; the handler
\* of another request starts from an I/O callback, which runs only when no
\* microtask is pending: no upload is between two of its awaits
EventLoopIdle == \A r \in 1..Len(uploads) : uploads[r].pc = "done"

---------------------------------------------------------------------------
(* Specification SpecServer *)

MaxUploads == 2

SheetOrders ==
    [name |-> "Orders", raises |-> FALSE,
     json |-> << <<"a", "b">>, <<Str(Sabc), Num(9)>>, <<Num(0), Bool(FALSE)>>, <<Str(S100)>> >>]
SheetNoHeaders == [name |-> "NoHeaders", raises |-> FALSE, json |-> << <<>>, <<Num(9)>> >>]
SheetTwice == [name |-> "Twice", raises |-> FALSE, json |-> << <<"a", "a">>, <<Num(9), Str(Sabc)>> >>]
SheetBlank == [name |-> "Blank", raises |-> FALSE, json |-> <<>>]
SheetRaising == [name |-> "Raising", raises |-> TRUE, json |-> << <<"a">> >>]

\* what a request carries: no file, a file XLSX.readFile rejects, or a workbook
Payloads ==
    {[kind |-> "nofile", sheets |-> <<>>],
     [kind |-> "unreadable", sheets |-> <<>>],
     [kind |-> "workbook", sheets |-> <<SheetOrders>>],
     [kind |-> "workbook", sheets |-> <<SheetNoHeaders>>],
     [kind |-> "workbook", sheets |-> <<SheetBlank, SheetTwice>>],
     [kind |-> "workbook", sheets |-> <<SheetOrders, SheetRaising>>]}

ColumnNames == {"a", "b", "zz"}

InitServer ==
    /\ excelFiles = {} /\ excelData = {} /\ uploads = <<>>
    /\ lastRequest = [kind |-> "none"]
    /\ IdleAnalysis /\ IdleTable /\ IdleHook

\* req with the given position, status and temporary file
Moved(req, pc, todo, status, temp) ==
    [req EXCEPT !.pc = pc, !.todo = todo, !.status = status, !.temp = temp]

RECURSIVE SkipBlank(_)
\* if (jsonData.length === 0) continue: the sheets from the first one that has rows
SkipBlank(todo) ==
    IF todo = <<>> \/ Len(todo[1].json) > 0 THEN todo ELSE SkipBlank(Tail(todo))

\* the for loop from the sheets todo up to the next await, its end or a throw
RunLoop(r, sheets) ==
    LET todo == SkipBlank(sheets)
    IN  IF todo = <<>>
        THEN \* fs.unlinkSync(req.file.path); res.json(...)
             /\ uploads' = [uploads EXCEPT ![r] = Moved(@, "done", <<>>, 200, FALSE)]
             /\ UNCHANGED excelData
        ELSE IF todo[1].raises
        THEN \* catch: fs.unlinkSync(req.file.path); res.status(500)
             /\ uploads' = [uploads EXCEPT ![r] = Moved(@, "done", <<>>, 500, FALSE)]
             /\ UNCHANGED excelData
        ELSE \* await storage.createExcelData(validatedData)
             /\ excelData' = excelData \cup
                    {SheetEntry(r, Len(uploads[r].payload.sheets) + 1 - Len(todo), todo[1])}
             /\ uploads' = [uploads EXCEPT ![r] = Moved(@, "stored", Tail(todo), 0, TRUE)]

\* POST /api/upload: the handler up to await storage.createExcelFile(...)
UploadRequest ==
    /\ EventLoopIdle
    /\ Len(uploads) < MaxUploads
    /\ \E payload \in Payloads :
          LET r == Len(uploads) + 1
          IN  IF payload.kind = "nofile"
              THEN /\ uploads' = Append(uploads, [payload |-> payload, pc |-> "done",
                                          fileId |-> 0, todo |-> <<>>, status |-> 400,
                                          temp |-> FALSE])
                   /\ UNCHANGED excelFiles
              ELSE /\ uploads' = Append(uploads, [payload |-> payload, pc |-> "created",
                                          fileId |-> r, todo |-> <<>>, status |-> 0,
                                          temp |-> TRUE])
                   /\ excelFiles' = excelFiles \cup {r}
    /\ UNCHANGED <<excelData, lastRequest, analysisVars, tableVars, hookVars>>

\* the handler after await storage.createExcelFile: XLSX.readFile, then the loop
AfterCreateFile ==
    /\ \E r \in 1..Len(uploads) :
          /\ uploads[r].pc = "created"
          /\ IF uploads[r].payload.kind = "unreadable"
             THEN /\ uploads' = [uploads EXCEPT ![r] = Moved(@, "done", <<>>, 500, FALSE)]
                  /\ UNCHANGED excelData
             ELSE RunLoop(r, uploads[r].payload.sheets)
    /\ UNCHANGED <<excelFiles, lastRequest, analysisVars, tableVars, hookVars>>

\* the handler after await storage.createExcelData: the loop goes on
AfterCreateData ==
    /\ \E r \in 1..Len(uploads) :
          /\ uploads[r].pc = "stored"
          /\ RunLoop(r, uploads[r].todo)
    /\ UNCHANGED <<excelFiles, lastRequest, analysisVars, tableVars, hookVars>>

\* DELETE /api/files/:fileId; lastRequest keeps the storage before the call
DeleteRequest ==
    /\ EventLoopIdle
    /\ \E id \in 1..MaxUploads :
          /\ excelData' = RemainingData(excelData, id)
          /\ excelFiles' = excelFiles \ {id}
          /\ lastRequest' = [kind |-> "delete", id |-> id,
                             deleted |-> id \in excelFiles,
                             status |-> IF id \in excelFiles THEN 200 ELSE 404,
                             filesBefore |-> excelFiles, dataBefore |-> excelData]
    /\ UNCHANGED <<uploads, analysisVars, tableVars, hookVars>>

\* POST /api/chart-data
ChartDataRequest ==
    /\ EventLoopIdle
    /\ \E dataId \in {<<r, n>> : r \in 1..MaxUploads, n \in 1..2},
          xColumn \in ColumnNames, yColumn \in ColumnNames :
          LET found == {d \in excelData : d.id = dataId}
          IN  IF found = {}
              THEN lastRequest' = [kind |-> "chart", dataId |-> dataId, xColumn |-> xColumn,
                                   yColumn |-> yColumn, status |-> 404, data |-> <<>>]
              ELSE LET entry == CHOOSE d \in found : TRUE
                   IN  lastRequest' =
                         [kind |-> "chart", dataId |-> dataId, xColumn |-> xColumn,
                          yColumn |-> yColumn, status |-> 200,
                          data |-> [i \in 1..Len(entry.data) |->
                                      [x |-> Property(entry.data[i], xColumn),
                                       y |-> Property(entry.data[i], yColumn),
                                       label |-> Property(entry.data[i], xColumn)]]]
    /\ UNCHANGED <<excelFiles, excelData, uploads, analysisVars, tableVars, hookVars>>

NextServer ==
    \/ UploadRequest
    \/ AfterCreateFile
    \/ AfterCreateData
    \/ DeleteRequest
    \/ ChartDataRequest

SpecServer == InitServer /\ [][NextServer]_vars

---------------------------------------------------------------------------
(* Properties of the upload, delete and chart-data routes *)

\* the sheet a stored entry was made from, its header row and its rows
SourceSheet(d) == uploads[d.fileId].payload.sheets[d.id[2]]
SourceHeaders(d) == SourceSheet(d).json[1]
SourceRows(d) == Tail(SourceSheet(d).json)

Finished(r) == uploads[r].pc = "done"

\* a sheet with rows but no header, or with a row shorter than the header row
StructurallyInvalid(sheet) ==
    /\ Len(sheet.json) > 1
    /\ \/ Len(sheet.json[1]) = 0
       \/ \E i \in 2..Len(sheet.json) : Len(sheet.json[i]) < Len(sheet.json[1])

\* C21: a sheet whose header list is empty while it has rows, or whose rows
\* lack a declared header, ends the upload in an error response and gets no
\* statistics artifact.
C21_StructuralInputError ==
    /\ \A d \in excelData : ~StructurallyInvalid(SourceSheet(d))
    /\ \A r \in 1..Len(uploads) :
          (Finished(r) /\ \E k \in 1..Len(uploads[r].payload.sheets) :
                              StructurallyInvalid(uploads[r].payload.sheets[k]))
              => uploads[r].status # 200

\* C22: a chart-data request naming an xColumn or yColumn that is not among
\* the headers of the dataset is answered with an error and no chart points.
C22_UnknownColumnError ==
    lastRequest.kind = "chart" =>
        \A d \in excelData :
            (/\ d.id = lastRequest.dataId
             /\ \/ \A k \in 1..Len(d.headers) : d.headers[k] # lastRequest.xColumn
                \/ \A k \in 1..Len(d.headers) : d.headers[k] # lastRequest.yColumn)
                => (lastRequest.status # 200 /\ lastRequest.data = <<>>)

\* position k holds the column that a row object keeps for its header
KeptColumn(hs, k) == \A later \in (k + 1)..Len(hs) : hs[later] # hs[k]

C24_CascadeDeletion ==
    [][\A id \in 1..MaxUploads :
          (lastRequest' # lastRequest /\ lastRequest'.kind = "delete" /\ lastRequest'.id = id)
              => /\ \A d \in excelData' : d.fileId # id
                 /\ id \notin excelFiles'
                 /\ excelFiles' \ {id} = excelFiles \ {id}
                 /\ {d \in excelData' : d.fileId # id} = {d \in excelData : d.fileId # id}
                 /\ lastRequest'.deleted = (id \in excelFiles)]_vars

\* a file with a sheet entry has been deleted while another file's entry stays
C24_Witness ==
    /\ lastRequest.kind = "delete" /\ lastRequest.deleted
    /\ \E d \in lastRequest.dataBefore : d.fileId = lastRequest.id
    /\ excelData # {}
    /\ excelFiles # {}

\* the cells of column k of the sheet that hold nothing: absent, null,
\* undefined or the empty string
EmptyIn(rows, k) ==
    {i \in 1..Len(rows) : k > Len(rows[i]) \/ EmptyCell(rows[i][k])}

RECURSIVE SumOf(_, _)
SumOf(f(_), S) == IF S = {} THEN 0 ELSE LET x == CHOOSE x \in S : TRUE IN f(x) + SumOf(f, S \ {x})

\* C25: a cell holding the number 0 or the boolean false is stored as that
\* value, and nullCount and missingValues count only the cells that are
\* null, undefined or the empty string.
C25_OnlyEmptyIsMissing ==
    \A d \in excelData :
        (\A k \in 1..Len(d.headers) : KeptColumn(d.headers, k)) =>
            /\ \A i \in 1..Len(d.data), k \in 1..Len(d.headers) :
                  (k <= Len(SourceRows(d)[i]) /\ SourceRows(d)[i][k] \in {Num(0), Bool(FALSE)})
                      => d.data[i][d.headers[k]] = SourceRows(d)[i][k]
            /\ \A k \in 1..Len(d.headers) :
                  d.statistics.columns[d.headers[k]].nullCount
                      = Cardinality(EmptyIn(SourceRows(d), k))
            /\ d.statistics.summary.missingValues
                  = SumOf(LAMBDA k : Cardinality(EmptyIn(SourceRows(d), k)), 1..Len(d.headers))

\* C26: for every stored sheet entry, statistics.columns has a profile for
\* exactly the stored headers, every profile's count is rowCount, and the
\* summary's totalRecords and totalColumns are rowCount, the number of stored
\* rows, and columnCount, the number of stored headers.
C26_ArtifactConsistent ==
    \A d \in excelData :
        /\ DOMAIN d.statistics.columns = {d.headers[k] : k \in 1..Len(d.headers)}
        /\ \A h \in DOMAIN d.statistics.columns : d.statistics.columns[h].count = d.rowCount
        /\ d.rowCount = Len(d.data)
        /\ d.columnCount = Len(d.headers)
        /\ d.statistics.summary.totalRecords = d.rowCount
        /\ d.statistics.summary.totalColumns = d.columnCount

\* the entry of a sheet with two headers and three rows is still stored after
\* a second upload has finished and a chart-data request has read an entry
C26_Witness ==
    /\ Len(uploads) = 2 /\ Finished(1) /\ Finished(2)
    /\ lastRequest.kind = "chart" /\ lastRequest.status = 200
    /\ \E d \in excelData : d.fileId = 1 /\ d.rowCount = 3 /\ d.columnCount = 2
    /\ \E d \in excelData : d.fileId = 2

\* C27: every stored sheet entry's fileId is the id of a stored file record.
C27_NoOrphans == \A d \in excelData : d.fileId \in excelFiles

\* a file with a sheet entry has been deleted after a second upload has
\* stored its own entries
C27_Witness ==
    /\ lastRequest.kind = "delete" /\ lastRequest.deleted
    /\ \E d \in lastRequest.dataBefore : d.fileId = lastRequest.id
    /\ Len(uploads) = 2
    /\ \E d \in excelData : d.fileId # lastRequest.id

\* C28: an upload that ends with an error response leaves neither its file
\* record nor any sheet entry of it in storage, and its temporary file is
\* removed.
C28_FailedUploadRollsBack ==
    \A r \in 1..Len(uploads) :
        (Finished(r) /\ uploads[r].status >= 400) =>
            /\ uploads[r].fileId \notin excelFiles
            /\ \A d \in excelData : d.fileId # uploads[r].fileId
            /\ ~uploads[r].temp

---------------------------------------------------------------------------
(* DataTable (data-table.tsx): the state of the component and what it
   derives from it at every render *)

ItemsPerPage == 10

\* s.includes(part)
Includes(s, part) ==
    \E i \in 1..(Len(s) - Len(part) + 1) : SubSeq(s, i, i + Len(part) - 1) = part

\* the characters of the table cells in the order of their code units
CodeOrder ==
    <<"0", "1", "2", "3", "4", "5", "6", "7", "8", "9",
      "a", "b", "c", "d", "e", "f", "g", "h", "i", "j", "k", "l", "m",
      "n", "o", "p", "q", "r", "s", "t", "u", "v", "w", "x", "y", "z">>
CodeUnit(c) == CHOOSE i \in 1..Len(CodeOrder) : CodeOrder[i] = c

RECURSIVE StringLess(_, _)
\* aStr < bStr
StringLess(a, b) ==
    IF b = <<>> THEN FALSE
    ELSE IF a = <<>> THEN TRUE
    ELSE IF a[1] = b[1] THEN StringLess(Tail(a), Tail(b))
    ELSE CodeUnit(a[1]) < CodeUnit(b[1])

\* value == null
IsNullish(v) == v.t = "null" \/ v.t = "undef"

\* the sign of the comparator of filtered.sort((a, b) => ...)
CompareRows(a, b, column, direction) ==
    LET aVal == Property(a, column)
        bVal == Property(b, column)
        aNum == ParseFloat(aVal)
        bNum == ParseFloat(bVal)
        aStr == ToLowerCase(ToStr(aVal))
        bStr == ToLowerCase(ToStr(bVal))
        ascending == IF IsNullish(aVal) /\ IsNullish(bVal) THEN 0
                     ELSE IF IsNullish(aVal) THEN -1
                     ELSE IF IsNullish(bVal) THEN 1
                     ELSE IF ~IsNaN(aNum) /\ ~IsNaN(bNum)
                        THEN (IF Lt(aNum, bNum) THEN -1 ELSE IF Lt(bNum, aNum) THEN 1 ELSE 0)
                     ELSE IF StringLess(aStr, bStr) THEN -1
                     ELSE IF StringLess(bStr, aStr) THEN 1
                     ELSE 0
    IN  IF direction = "asc" THEN ascending ELSE 0 - ascending

\* the rows, each at its place
Arrange(rows, place) ==
    [p \in 1..Len(rows) |-> rows[CHOOSE i \in 1..Len(rows) : place[i] = p]]

\* the array after filtered.sort(...): the sort is stable, so a row comes
\* after the rows the comparator puts before it and after the rows it ties
\* with that stood before it
SortRows(rows, column, direction) ==
    Arrange(rows, [i \in 1..Len(rows) |->
                    1 + Cardinality({j \in 1..Len(rows) :
                          LET sign == CompareRows(rows[j], rows[i], column, direction)
                          IN  sign < 0 \/ (sign = 0 /\ j < i)})])

\* the callback of data.filter(row => ...)
RowMatches(row, term, column) ==
    \/ term = <<>>
    \/ /\ column = "all"
       /\ \E h \in DOMAIN row : Includes(ToLowerCase(ToStr(row[h])), ToLowerCase(term))
    \/ /\ column # "all"
       /\ Includes(ToLowerCase(ToStr(OrElse(Property(row, column), Str(<<>>)))),
                   ToLowerCase(term))

\* processedData: a new array holding the rows that match, sorted when a
\* sort column and a direction are set
ProcessedData ==
    LET filtered == SelectSeq(tableData, LAMBDA row : RowMatches(row, searchTerm, selectedColumn))
    IN  IF sortColumn # "none" /\ sortDirection # "none"
        THEN SortRows(filtered, sortColumn, sortDirection)
        ELSE filtered

\* Math.ceil(processedData.length / itemsPerPage)
TotalPages == (Len(ProcessedData) + ItemsPerPage - 1) \div ItemsPerPage
StartIndex == (currentPage - 1) * ItemsPerPage
EndIndex == StartIndex + ItemsPerPage

\* array.slice(start, end): a negative index counts from the end
Slice(s, start, end) ==
    LET from == IF start < 0 THEN (IF Len(s) + start < 0 THEN 0 ELSE Len(s) + start)
                ELSE IF start > Len(s) THEN Len(s) ELSE start
        to == IF end < 0 THEN (IF Len(s) + end < 0 THEN 0 ELSE Len(s) + end)
              ELSE IF end > Len(s) THEN Len(s) ELSE end
    IN  SubSeq(s, from + 1, to)
CurrentData == Slice(ProcessedData, StartIndex, EndIndex)

\* the start index shown: processedData.length === 0 ? 0 : startIndex + 1
ShownStart == IF Len(ProcessedData) = 0 THEN 0 ELSE StartIndex + 1

\* the number on the page button i, counted from 0
PageNumber(i, totalPages, page) ==
    IF totalPages <= 5 THEN i + 1
    ELSE IF page <= 3 THEN i + 1
    ELSE IF page >= totalPages - 2 THEN totalPages - 4 + i
    ELSE page - 2 + i

\* Array.from({ length: Math.min(5, totalPages) }, (_, i) => ...)
PageButtons(totalPages, page) ==
    {PageNumber(i, totalPages, page) :
        i \in 0..((IF totalPages < 5 THEN totalPages ELSE 5) - 1)}
PageNumbers == PageButtons(TotalPages, currentPage)

\* Math.min(prev + 1, totalPages)
PageAfter(prev, totalPages) == IF prev + 1 < totalPages THEN prev + 1 ELSE totalPages

---------------------------------------------------------------------------
(* Specification SpecTable *)

MaxTableRows == 61

\* n rows with the column x: "b" in the first row, "a" in the others
TableRows(n) == [i \in 1..n |-> [x |-> IF i = 1 THEN Str(<<"b">>) ELSE Str(<<"a">>)]]
SearchTerms == {<<>>, <<"A">>, <<"b">>}
\* the sizes of the data prop: none, one page, two pages, the most pages
TableSizes == {0, 1, ItemsPerPage + 1, MaxTableRows}

InitTable ==
    /\ \E n \in TableSizes : tableData = TableRows(n)
    /\ searchTerm = <<>> /\ selectedColumn = "all"
    /\ sortColumn = "none" /\ sortDirection = "none" /\ currentPage = 1
    /\ IdleAnalysis /\ IdleServer /\ IdleHook

\* the parent passes another data prop; the state of the component stays
ChangeData ==
    /\ \E n \in TableSizes : tableData' = TableRows(n)
    /\ UNCHANGED <<searchTerm, selectedColumn, sortColumn, sortDirection, currentPage,
                   analysisVars, serverVars, hookVars>>

\* onChange of the search input
EditSearchTerm ==
    /\ \E term \in SearchTerms : searchTerm' = term
    /\ UNCHANGED <<tableData, selectedColumn, sortColumn, sortDirection, currentPage,
                   analysisVars, serverVars, hookVars>>

\* onValueChange of the column select
SelectColumn ==
    /\ \E column \in {"all", "x"} : selectedColumn' = column
    /\ UNCHANGED <<tableData, searchTerm, sortColumn, sortDirection, currentPage,
                   analysisVars, serverVars, hookVars>>

\* handleSort(column), the click on a header
HandleSort ==
    /\ \E column \in {"x"} :
          IF sortColumn = column
          THEN IF sortDirection = "asc"
               THEN sortDirection' = "desc" /\ UNCHANGED sortColumn
               ELSE IF sortDirection = "desc"
               THEN sortColumn' = "none" /\ sortDirection' = "none"
               ELSE sortDirection' = "asc" /\ UNCHANGED sortColumn
          ELSE sortColumn' = column /\ sortDirection' = "asc"
    /\ UNCHANGED <<tableData, searchTerm, selectedColumn, currentPage,
                   analysisVars, serverVars, hookVars>>

\* the Previous button: disabled on page 1
ClickPrevious ==
    /\ currentPage # 1
    /\ currentPage' = (IF currentPage - 1 > 1 THEN currentPage - 1 ELSE 1)
    /\ UNCHANGED <<tableData, searchTerm, selectedColumn, sortColumn, sortDirection,
                   analysisVars, serverVars, hookVars>>

\* the Next button: disabled when currentPage === totalPages
ClickNext ==
    /\ currentPage # TotalPages
    /\ currentPage' = PageAfter(currentPage, TotalPages)
    /\ UNCHANGED <<tableData, searchTerm, selectedColumn, sortColumn, sortDirection,
                   analysisVars, serverVars, hookVars>>

\* a page-number button
ClickPageNumber ==
    /\ \E pageNumber \in PageNumbers : currentPage' = pageNumber
    /\ UNCHANGED <<tableData, searchTerm, selectedColumn, sortColumn, sortDirection,
                   analysisVars, serverVars, hookVars>>

NextTable ==
    \/ ChangeData
    \/ EditSearchTerm
    \/ SelectColumn
    \/ HandleSort
    \/ ClickPrevious
    \/ ClickNext
    \/ ClickPageNumber

SpecTable == InitTable /\ [][NextTable]_vars

---------------------------------------------------------------------------
(* Properties of DataTable *)

\* C29: currentPage stays within 1..max(1, totalPages): the page shown has a
\* row whenever the filtered result has one, and the start index is never
\* negative.
C29_PageInRange ==
    /\ currentPage >= 1
    /\ currentPage <= (IF TotalPages > 1 THEN TotalPages ELSE 1)
    /\ ShownStart >= 0
    /\ ProcessedData # <<>> => CurrentData # <<>>

---------------------------------------------------------------------------
(* useFileUpload (use-file-upload.tsx): the state of the hook, the calls of
   uploadFile and the progress intervals they started *)

ProgressStep == 10
ProgressCap == 90
ProgressDone == 100

\* Math.min(prev + 10, 90), the update of the progress interval
Progressed(prev) ==
    IF prev + ProgressStep < ProgressCap THEN prev + ProgressStep ELSE ProgressCap

\* the file passes the checks of its type and its size
Accepted(file) == file = "sheet"

---------------------------------------------------------------------------
(* Specification SpecHook *)

MaxCalls == 2

Files == {"sheet", "text", "large"}

InitHook ==
    /\ isUploading = FALSE /\ uploadProgress = 0 /\ calls = <<>> /\ timers = {}
    /\ IdleAnalysis /\ IdleServer /\ IdleTable

\* the call c at another position
At(c, pc) == [calls EXCEPT ![c].pc = pc]

\* uploadFile(file) up to its first await: a file that fails a check throws
\* before the interval starts, and catch and finally run at once
CallUploadFile ==
    /\ Len(calls) < MaxCalls
    /\ \E file \in Files :
          IF Accepted(file)
          THEN /\ calls' = Append(calls, [file |-> file, pc |-> "fetching"])
               /\ timers' = timers \cup {Len(calls) + 1}
               /\ isUploading' = TRUE
               /\ uploadProgress' = 0
          ELSE /\ calls' = Append(calls, [file |-> file, pc |-> "rejected"])
               /\ isUploading' = FALSE
               /\ uploadProgress' = 0
               /\ UNCHANGED timers
    /\ UNCHANGED <<analysisVars, serverVars, tableVars>>

\* a progress interval fires
Tick ==
    /\ \E c \in timers : uploadProgress' = Progressed(uploadProgress)
    /\ UNCHANGED <<isUploading, calls, timers, analysisVars, serverVars, tableVars>>

\* fetch resolves with a response, OK or not: the interval is cleared
FetchResolves ==
    /\ \E c \in 1..Len(calls), ok \in BOOLEAN :
          /\ calls[c].pc = "fetching"
          /\ timers' = timers \ {c}
          /\ uploadProgress' = ProgressDone
          /\ calls' = At(c, IF ok THEN "reading" ELSE "reading error")
    /\ UNCHANGED <<isUploading, analysisVars, serverVars, tableVars>>

\* fetch rejects (network failure): control goes to catch and finally
\* without passing clearInterval
FetchRejects ==
    /\ \E c \in 1..Len(calls) :
          /\ calls[c].pc = "fetching"
          /\ calls' = At(c, "rejected")
    /\ isUploading' = FALSE
    /\ uploadProgress' = 0
    /\ UNCHANGED <<timers, analysisVars, serverVars, tableVars>>

\* response.json() settles: the call returns the result of an OK response
\* and throws otherwise; finally runs in both cases
JsonSettles ==
    /\ \E c \in 1..Len(calls), parsed \in BOOLEAN :
          /\ calls[c].pc \in {"reading", "reading error"}
          /\ calls' = At(c, IF calls[c].pc = "reading" /\ parsed THEN "resolved" ELSE "rejected")
    /\ isUploading' = FALSE
    /\ uploadProgress' = 0
    /\ UNCHANGED <<timers, analysisVars, serverVars, tableVars>>

NextHook ==
    \/ CallUploadFile
    \/ Tick
    \/ FetchResolves
    \/ FetchRejects
    \/ JsonSettles

SpecHook == InitHook /\ [][NextHook]_vars

---------------------------------------------------------------------------
(* Properties of useFileUpload *)

Settled(c) == calls[c].pc \in {"resolved", "rejected"}
ResponseArrived(c) == calls[c].pc \in {"reading", "reading error"}

\* C30: once the calls of uploadFile have settled, isUploading is false and
\* uploadProgress is 0, and no interval of a settled call is still running;
\* uploadProgress is at most 90 while no response has arrived and at most
\* 100 always.
C30_SettledMeansIdle ==
    /\ (calls # <<>> /\ \A c \in 1..Len(calls) : Settled(c))
          => isUploading = FALSE /\ uploadProgress = 0
    /\ \A c \in timers : ~Settled(c)
    /\ (\A c \in 1..Len(calls) : ~ResponseArrived(c)) => uploadProgress <= ProgressCap
    /\ uploadProgress <= ProgressDone

====
